---- MODULE Spec2Model ----
(***************************************************************************)
(* Weather lookup service (GET /api/weather with an in-memory cache and a  *)
(* provider fallback chain) and the display client that calls it.          *)
(*                                                                         *)
(* Strings that the code inspects or compares (city, cache key, location   *)
(* name) are sequences of character codes; opaque strings (icon URLs,      *)
(* error messages) are TLA+ strings.  Temperatures are in tenths of a      *)
(* degree before rounding.  Time is in milliseconds.                       *)
(***************************************************************************)
EXTENDS Integers, Sequences, FiniteSets, TLC

VARIABLES
    cache,        \* the module-level Map<string, CacheData>
    now,          \* Date.now()
    ticks,        \* number of explicit clock advances so far
    env,          \* process.env: which credentials are configured
    pc,           \* per lookup: "idle", "fetch", "body", "done"
    city,         \* per lookup: searchParams.get('city')
    api,          \* per lookup: index in apis of the adapter being awaited
    timer,        \* per lookup: delay of the armed abort timer, -1 if none
    response,     \* per lookup: the NextResponse returned
    calls,        \* per lookup: adapters invoked, in order (history)
    failed,       \* per lookup: adapters whose promise rejected (history)
    cacheOps,     \* per lookup: cache.get / cache.set performed, and what
                  \* cache.get found: an entry or none, and its age (history)
    got,          \* per lookup: adapter, payload and snapshot of the success (history)
    cityInput,    \* client: useState('') city
    weatherData,  \* client: useState(null) weatherData
    error,        \* client: useState('') error
    loading,      \* client: useState(false) loading
    creq,         \* client: per submission, state of its fetch
    resolved      \* client: outcomes in the order they resolved (history)

serverVars == <<cache, now, ticks, env, pc, city, api, timer, response,
                calls, failed, cacheOps, got>>
clientVars == <<cityInput, weatherData, error, loading, creq, resolved>>
vars == <<cache, now, ticks, env, pc, city, api, timer, response,
          calls, failed, cacheOps, got,
          cityInput, weatherData, error, loading, creq, resolved>>

-----------------------------------------------------------------------------
(* Bounds *)

NumReq == 2
MaxTicks == 3
NumSubmit == 2

Req == 1..NumReq
CReq == 1..NumSubmit

-----------------------------------------------------------------------------
(* Program constants *)

CACHE_DURATION == 5 * 60 * 1000
DEFAULT_TIMEOUT == 5000
WTTR_TIMEOUT == 8000

apis == <<"getWeatherFromOpenWeather", "getWeatherFromWttrIn">>

-----------------------------------------------------------------------------
(* Strings *)

Null == <<-1>>          \* searchParams.get of an absent parameter
SPACE == 32
TAB == 9
WhiteSpace == {SPACE, TAB}

\* "weather_"
KeyPrefix == <<119, 101, 97, 116, 104, 101, 114, 95>>

Queries == {Null, <<>>, <<SPACE>>, <<80>>}

\* !city
Falsy(c) == c = Null \/ c = <<>>

RECURSIVE trimStart(_)
trimStart(s) ==
    IF s # <<>> /\ Head(s) \in WhiteSpace THEN trimStart(Tail(s)) ELSE s

RECURSIVE trimEnd(_)
trimEnd(s) ==
    IF s # <<>> /\ s[Len(s)] \in WhiteSpace
    THEN trimEnd(SubSeq(s, 1, Len(s) - 1)) ELSE s

trim(s) == trimEnd(trimStart(s))

-----------------------------------------------------------------------------
(* Cache *)

EmptyMap == [k \in {} |-> 0]

\* variant: the key is built from the trimmed city
CacheKey_trimmed(c) == KeyPrefix \o trim(c)

CacheKey(c) == KeyPrefix \o c

CacheHas(m, k) == k \in DOMAIN m

CacheSet(m, k, d, t) ==
    [x \in DOMAIN m \cup {k} |->
        IF x = k THEN [data |-> d, timestamp |-> t] ELSE m[x]]

\* variants of the freshness test
IsFresh_short(entry, t) == t - entry.timestamp < CACHE_DURATION - 1
IsFresh_long(entry, t) == t - entry.timestamp <= CACHE_DURATION + 1
IsFresh_inclusive(entry, t) == t - entry.timestamp <= CACHE_DURATION

IsFresh(entry, t) == t - entry.timestamp < CACHE_DURATION

-----------------------------------------------------------------------------
(* Provider adapters *)

\* Math.round on a value given in tenths (rounds half up)
MathRound(tenths) == (tenths + 5) \div 10

NoData == [name |-> <<>>, temp |-> 0, icon |-> ""]
NoPayload == [valid |-> FALSE, name |-> <<>>, temp |-> 0, icon |-> ""]

OpenWeatherPayloads ==
    { [valid |-> TRUE,  name |-> <<76>>, temp |-> 215,  icon |-> "01d"],
      [valid |-> TRUE,  name |-> <<76>>, temp |-> -25,  icon |-> "10n"],
      [valid |-> FALSE, name |-> <<>>,   temp |-> 0,    icon |-> ""] }

\* name / temp / icon of <<>> / 0 / "" stand for a missing sub-field
WttrPayloads ==
    { [valid |-> TRUE,  name |-> <<77>>, temp |-> 184, icon |-> "w.png"],
      [valid |-> TRUE,  name |-> <<>>,   temp |-> 0,   icon |-> ""],
      [valid |-> FALSE, name |-> <<>>,   temp |-> 0,   icon |-> ""] }

PayloadsOf(i) ==
    IF apis[i] = "getWeatherFromOpenWeather" THEN OpenWeatherPayloads
    ELSE WttrPayloads

OpenWeatherMap(p) ==
    [name |-> p.name,
     temp |-> MathRound(p.temp),
     icon |-> "https://openweathermap.org/img/wn/" \o p.icon \o "@2x.png"]

WttrMap(p, c) ==
    [name |-> IF p.name # <<>> THEN p.name ELSE c,
     temp |-> MathRound(p.temp),
     icon |-> p.icon]

\* variant: every adapter maps with the first adapter's field mapping
AdapterMap_first(i, p, c) == OpenWeatherMap(p)

AdapterMap(i, p, c) ==
    IF apis[i] = "getWeatherFromOpenWeather" THEN OpenWeatherMap(p)
    ELSE WttrMap(p, c)

\* the adapter throws before any network call
SyncFails(i) ==
    apis[i] = "getWeatherFromOpenWeather" /\ ~env.OPENWEATHER_API_KEY

TimeoutOf(i) ==
    IF apis[i] = "getWeatherFromWttrIn" THEN WTTR_TIMEOUT ELSE DEFAULT_TIMEOUT

-----------------------------------------------------------------------------
(* Responses; error carries the meaning of the message, in English *)

NoResponse == [status |-> 0, data |-> NoData, error |-> ""]
Ok(d) == [status |-> 200, data |-> d, error |-> ""]
BadRequest == [status |-> 400, data |-> NoData, error |-> "city name must not be empty"]
\* variant: the failure after the loop answers 500
Unavailable_500 == [status |-> 500, data |-> NoData, error |-> "all weather services unavailable"]

Unavailable == [status |-> 503, data |-> NoData, error |-> "all weather services unavailable"]

-----------------------------------------------------------------------------
(* Display client *)

\* useState<WeatherData | null>(null)
NullData == [name |-> Null, temp |-> 0, icon |-> ""]

DefaultError == "failed to get weather data"

Inputs == {<<>>, <<SPACE>>, <<80>>, <<SPACE, 80>>}

\* What the awaited fetch / response.json() of handleSubmit can deliver:
\* a 200 with a snapshot, a non-200 with or without data.error, or a throw.
Outcomes ==
    { [kind |-> "ok", data |-> OpenWeatherMap(p), msg |-> ""] :
          p \in {x \in OpenWeatherPayloads : x.valid} }
    \cup { [kind |-> "http", data |-> NoData, msg |-> Unavailable.error],
           [kind |-> "http", data |-> NoData, msg |-> ""],
           [kind |-> "throw", data |-> NoData, msg |-> "Failed to fetch"] }

\* the message of the Error thrown or caught in handleSubmit
ErrorMessage(o) == IF o.msg # "" THEN o.msg ELSE DefaultError

-----------------------------------------------------------------------------
(* The fallback loop *)

\* variant: the catch retries the same adapter
NextApi_retry(i) == i

\* for (const api of apis): after the catch of adapter i, continue with
NextApi(i) == i + 1

\* first adapter from i on that reaches its network call; Len(apis)+1 if none
RECURSIVE FirstAwait(_)
FirstAwait(i) ==
    IF i > Len(apis) THEN i
    ELSE IF SyncFails(i) THEN FirstAwait(i + 1)
    ELSE i

RECURSIVE Range(_, _)
Range(a, b) == IF a > b THEN <<>> ELSE <<a>> \o Range(a + 1, b)

Min(a, b) == IF a < b THEN a ELSE b

\* Run the loop of GET from adapter i up to its next await or to the 503
\* after the loop.
RunLoop(r, i) ==
    LET j == FirstAwait(i) IN
    /\ calls' = [calls EXCEPT ![r] = @ \o Range(i, Min(j, Len(apis)))]
    /\ failed' = [failed EXCEPT ![r] = @ \cup (IF api[r] = 0 THEN {} ELSE {api[r]})
                                          \cup {k \in 1..Len(apis) : i <= k /\ k < j}]
    /\ IF j > Len(apis)
       THEN /\ pc' = [pc EXCEPT ![r] = "done"]
            /\ api' = [api EXCEPT ![r] = 0]
            /\ timer' = [timer EXCEPT ![r] = -1]
            /\ response' = [response EXCEPT ![r] = Unavailable]
       ELSE /\ pc' = [pc EXCEPT ![r] = "fetch"]
            /\ api' = [api EXCEPT ![r] = j]
            /\ timer' = [timer EXCEPT ![r] = TimeoutOf(j)]
            /\ UNCHANGED response

-----------------------------------------------------------------------------
(* Server actions *)

Init ==
    /\ cache = EmptyMap
    /\ now = 0
    /\ ticks = 0
    /\ env \in [OPENWEATHER_API_KEY : BOOLEAN]
    /\ pc = [r \in Req |-> "idle"]
    /\ city = [r \in Req |-> Null]
    /\ api = [r \in Req |-> 0]
    /\ timer = [r \in Req |-> -1]
    /\ response = [r \in Req |-> NoResponse]
    /\ calls = [r \in Req |-> <<>>]
    /\ failed = [r \in Req |-> {}]
    /\ cacheOps = [r \in Req |-> [get |-> 0, set |-> 0, had |-> FALSE, ts |-> 0, age |-> 0]]
    /\ got = [r \in Req |-> [api |-> 0, p |-> NoPayload, data |-> NoData]]
    /\ cityInput = <<>>
    /\ weatherData = NullData
    /\ error = ""
    /\ loading = FALSE
    /\ creq = [q \in CReq |-> [state |-> "none", city |-> <<>>, overlap |-> FALSE]]
    /\ resolved = <<>>

\* GET, from entry to its first await or return
GET(r, q) ==
    /\ pc[r] = "idle"
    /\ \A r2 \in Req : r2 < r => pc[r2] # "idle"   \* lookups are numbered by arrival
    /\ city' = [city EXCEPT ![r] = q]
    /\ IF Falsy(q)
       THEN /\ pc' = [pc EXCEPT ![r] = "done"]
            /\ response' = [response EXCEPT ![r] = BadRequest]
            /\ UNCHANGED <<api, timer, calls, failed, cacheOps>>
       ELSE /\ cacheOps' = [cacheOps EXCEPT ![r] =
                    [get |-> @.get + 1, set |-> @.set,
                     had |-> CacheHas(cache, CacheKey(q)),
                     ts  |-> IF CacheHas(cache, CacheKey(q))
                             THEN cache[CacheKey(q)].timestamp ELSE 0,
                     age |-> IF CacheHas(cache, CacheKey(q))
                             THEN now - cache[CacheKey(q)].timestamp ELSE 0]]
            /\ IF CacheHas(cache, CacheKey(q)) /\ IsFresh(cache[CacheKey(q)], now)
               THEN /\ pc' = [pc EXCEPT ![r] = "done"]
                    /\ response' = [response EXCEPT ![r] = Ok(cache[CacheKey(q)].data)]
                    /\ UNCHANGED <<api, timer, calls, failed>>
               ELSE RunLoop(r, 1)
    /\ UNCHANGED <<cache, now, ticks, env, got>>
    /\ UNCHANGED clientVars

\* fetch resolves with a response: fetchWithTimeout clears the timer
FetchResponds(r, ok) ==
    /\ pc[r] = "fetch"
    /\ IF ok
       THEN /\ pc' = [pc EXCEPT ![r] = "body"]
            /\ timer' = [timer EXCEPT ![r] = -1]
            /\ UNCHANGED <<api, response, calls, failed>>
       ELSE RunLoop(r, NextApi(api[r]))
    /\ UNCHANGED <<cache, now, ticks, env, city, cacheOps, got>>
    /\ UNCHANGED clientVars

\* fetch rejects (network error)
FetchRejects(r) ==
    /\ pc[r] = "fetch"
    /\ RunLoop(r, NextApi(api[r]))
    /\ UNCHANGED <<cache, now, ticks, env, city, cacheOps, got>>
    /\ UNCHANGED clientVars

\* the setTimeout callback runs: controller.abort() rejects the fetch.
\* The moment a timer fires is the environment's choice; now is advanced
\* by Tick only.
TimeoutFires(r) ==
    /\ pc[r] = "fetch"
    /\ timer[r] >= 0
    /\ RunLoop(r, NextApi(api[r]))
    /\ UNCHANGED <<cache, now, ticks, env, city, cacheOps, got>>
    /\ UNCHANGED clientVars

\* response.json() resolves with payload p
BodyArrives(r, p) ==
    /\ pc[r] = "body"
    /\ p \in PayloadsOf(api[r])
    /\ IF p.valid
       THEN LET weatherData_ == AdapterMap(api[r], p, city[r]) IN
            /\ cache' = CacheSet(cache, CacheKey(city[r]), weatherData_, now)
            /\ cacheOps' = [cacheOps EXCEPT ![r].set = @ + 1]
            /\ got' = [got EXCEPT ![r] = [api |-> api[r], p |-> p, data |-> weatherData_]]
            /\ pc' = [pc EXCEPT ![r] = "done"]
            /\ response' = [response EXCEPT ![r] = Ok(weatherData_)]
            /\ api' = [api EXCEPT ![r] = 0]
            /\ UNCHANGED <<timer, calls, failed>>
       ELSE /\ RunLoop(r, NextApi(api[r]))
            /\ UNCHANGED <<cache, cacheOps, got>>
    /\ UNCHANGED <<now, ticks, env, city>>
    /\ UNCHANGED clientVars

\* response.json() rejects
BodyRejects(r) ==
    /\ pc[r] = "body"
    /\ RunLoop(r, NextApi(api[r]))
    /\ UNCHANGED <<cache, now, ticks, env, city, cacheOps, got>>
    /\ UNCHANGED clientVars

TickSteps == {1, CACHE_DURATION - 1}

Tick(d) ==
    /\ ticks < MaxTicks
    /\ ticks' = ticks + 1
    /\ now' = now + d
    /\ UNCHANGED <<cache, env, pc, city, api, timer, response,
                   calls, failed, cacheOps, got>>
    /\ UNCHANGED clientVars

Next ==
    \/ \E r \in Req, q \in Queries : GET(r, q)
    \/ \E r \in Req, ok \in BOOLEAN : FetchResponds(r, ok)
    \/ \E r \in Req : FetchRejects(r)
    \/ \E r \in Req : TimeoutFires(r)
    \/ \E r \in Req, p \in OpenWeatherPayloads \cup WttrPayloads : BodyArrives(r, p)
    \/ \E r \in Req : BodyRejects(r)
    \/ \E d \in TickSteps : Tick(d)

Spec == Init /\ [][Next]_vars

\* setTimeout callbacks are run by the event loop; when and whether an
\* upstream answers is up to the upstream.
LiveSpec == Init /\ [][Next]_vars /\ \A r \in Req : WF_vars(TimeoutFires(r))

-----------------------------------------------------------------------------
(* Client actions *)

\* onChange of the input
setCity(v) ==
    /\ v # cityInput
    /\ cityInput' = v
    /\ UNCHANGED <<weatherData, error, loading, creq, resolved>>
    /\ UNCHANGED serverVars

\* handleSubmit up to its await of fetch.  The handler itself does not
\* look at loading.
handleSubmit(q) ==
    /\ creq[q].state = "none"
    /\ \A q2 \in CReq : q2 < q => creq[q2].state # "none"
    /\ trim(cityInput) # <<>>
    /\ loading' = TRUE
    /\ error' = ""
    /\ creq' = [creq EXCEPT ![q] =
                  [state |-> "inflight", city |-> cityInput,
                   overlap |-> \E q2 \in CReq : creq[q2].state = "inflight"]]
    /\ UNCHANGED <<cityInput, weatherData, resolved>>
    /\ UNCHANGED serverVars

\* handleSubmit from the await to the end of finally
handleSubmitResume(q, o) ==
    /\ creq[q].state = "inflight"
    /\ IF o.kind = "ok"
       THEN /\ weatherData' = o.data
            /\ UNCHANGED error
       ELSE /\ error' = ErrorMessage(o)
            /\ UNCHANGED weatherData
    /\ loading' = FALSE
    /\ creq' = [creq EXCEPT ![q].state = "resolved"]
    /\ resolved' = Append(resolved, [q |-> q, o |-> o])
    /\ UNCHANGED cityInput
    /\ UNCHANGED serverVars

ClientNext ==
    \/ \E v \in Inputs : setCity(v)
    \/ \E q \in CReq : handleSubmit(q)
    \/ \E q \in CReq, o \in Outcomes : handleSubmitResume(q, o)

ClientSpec == Init /\ [][ClientNext]_vars

-----------------------------------------------------------------------------
(* Properties *)

AllApis == 1..Len(apis)

\* r's GET runs in this step and finds an entry for its city
StartsWithEntry(r) ==
    /\ pc[r] = "idle"
    /\ pc'[r] # "idle"
    /\ ~Falsy(city'[r])
    /\ (KeyPrefix \o city'[r]) \in DOMAIN cache

\* r's adapter succeeds in this step
Succeeds(r) == got[r].api = 0 /\ got'[r].api # 0

\* C1: a lookup that finds an entry younger than 5 minutes returns exactly
\* the stored snapshot, invokes no adapter and leaves the whole cache as it is.
C1_CacheHit ==
    [][\A r \in Req :
        (StartsWithEntry(r)
         /\ now - cache[KeyPrefix \o city'[r]].timestamp < CACHE_DURATION)
        => /\ pc'[r] = "done"
           /\ response'[r] = [status |-> 200,
                              data |-> cache[KeyPrefix \o city'[r]].data,
                              error |-> ""]
           /\ calls'[r] = <<>>
           /\ cache' = cache]_vars

C1_Witness ==
    \E r \in Req :
        /\ pc[r] = "done"
        /\ cacheOps[r].had
        /\ cacheOps[r].age = CACHE_DURATION - 1
        /\ response[r].status = 200
        /\ calls[r] = <<>>

\* C2: a lookup that finds an entry aged 5 minutes + 1 ms or more does not
\* answer from it but invokes an adapter, and when an adapter of that lookup
\* succeeds the entry becomes the new snapshot with the time of the write.
C2_CacheExpiry ==
    [][\A r \in Req :
        /\ (StartsWithEntry(r)
            /\ now - cache[KeyPrefix \o city'[r]].timestamp >= CACHE_DURATION + 1)
           => /\ calls'[r] # <<>>
              /\ response'[r].status # 200
        /\ (cacheOps[r].had /\ cacheOps[r].age >= CACHE_DURATION + 1 /\ Succeeds(r))
           => /\ cache'[KeyPrefix \o city[r]] =
                     [data |-> got'[r].data, timestamp |-> now]
              /\ now > cacheOps[r].ts
              /\ response'[r].status = 200
              /\ response'[r].data = got'[r].data]_vars

C2_Witness ==
    \E r \in Req :
        /\ cacheOps[r].had
        /\ cacheOps[r].age = CACHE_DURATION + 1
        /\ got[r].api # 0
        /\ cache[KeyPrefix \o city[r]].data = got[r].data
        /\ cache[KeyPrefix \o city[r]].timestamp > cacheOps[r].ts

\* C3: when the first adapter failed and the second succeeds, the response
\* is 200 with the second adapter's snapshot and the entry of the city holds
\* that snapshot, not one the first adapter could have produced.
C3_Fallback ==
    [][\A r \in Req :
        (Succeeds(r) /\ calls[r] = <<1, 2>>)
        => /\ 1 \in failed[r]
           /\ response'[r].status = 200
           /\ response'[r].data = WttrMap(got'[r].p, city[r])
           /\ cache'[KeyPrefix \o city[r]].data = WttrMap(got'[r].p, city[r])
           /\ \A p \in OpenWeatherPayloads :
                 cache'[KeyPrefix \o city[r]].data # OpenWeatherMap(p)]_vars

C3_Witness ==
    \E r \in Req :
        /\ ~env.OPENWEATHER_API_KEY
        /\ calls[r] = <<1, 2>>
        /\ failed[r] = {1}
        /\ got[r].api = 2
        /\ response[r].status = 200
        /\ cache[KeyPrefix \o city[r]].data = response[r].data

\* C4: a lookup in which every adapter failed answers 503, has written
\* nothing, and the step that ends it leaves the cache as it is.
C4_AllFail ==
    [][\A r \in Req :
        (pc[r] # "done" /\ pc'[r] = "done" /\ failed'[r] = AllApis)
        => /\ response'[r].status = 503
           /\ response'[r].data = NoData
           /\ cacheOps'[r].set = 0
           /\ cache' = cache]_vars

C4_Witness ==
    \E r \in Req :
        /\ response[r].status = 503
        /\ failed[r] = AllApis
        /\ cacheOps[r].had
        /\ cache[KeyPrefix \o city[r]].timestamp = cacheOps[r].ts

\* C5: a lookup whose city is missing, empty or only whitespace answers 400,
\* invokes no adapter and neither reads nor writes the cache.
C5_InputValidation ==
    \A r \in Req :
        (pc[r] # "idle" /\ (Falsy(city[r]) \/ trim(city[r]) = <<>>))
        => /\ response[r].status = 400
           /\ calls[r] = <<>>
           /\ cacheOps[r].get = 0
           /\ cacheOps[r].set = 0

\* C7: adapters are invoked in chain order, each at most once, the next one
\* only when all earlier ones have failed, and none after a success.
C7_Sequential ==
    \A r \in Req :
        LET n == Len(calls[r]) IN
        /\ n <= Len(apis)
        /\ \A k \in 1..n : calls[r][k] = k
        /\ \A k \in 1..(n - 1) : k \in failed[r]
        /\ failed[r] \subseteq 1..n
        /\ pc[r] \in {"fetch", "body"} => (api[r] = n /\ n \notin failed[r])
        /\ got[r].api # 0 => (got[r].api = n /\ n \notin failed[r] /\ pc[r] = "done")

C7_Witness ==
    \E r \in Req :
        /\ env.OPENWEATHER_API_KEY
        /\ calls[r] = <<1, 2>>
        /\ failed[r] = {1}
        /\ got[r].api = 2

\* C8 as stated: an entry aged exactly 5 minutes or less is served without
\* any adapter call.
C8_Original ==
    \A r \in Req :
        (cacheOps[r].had /\ cacheOps[r].age <= CACHE_DURATION)
        => /\ calls[r] = <<>>
           /\ response[r].status = 200

\* C8: an entry is served only while its age is below 5 minutes; at an age of
\* exactly 300000 ms it is stale and the lookup invokes an adapter.
C8_Boundary ==
    \A r \in Req :
        cacheOps[r].had
        => /\ cacheOps[r].age < CACHE_DURATION
              => (calls[r] = <<>> /\ response[r].status = 200)
           /\ cacheOps[r].age >= CACHE_DURATION
              => (calls[r] # <<>> /\ cacheOps[r].get = 1)

C8_Witness ==
    \E r \in Req :
        /\ cacheOps[r].had
        /\ cacheOps[r].age = CACHE_DURATION
        /\ calls[r] # <<>>

\* C9: the cache changes only in the step in which an adapter of some lookup
\* succeeds, only at the key made of that lookup's raw city, at most once
\* per lookup, and no entry is ever removed.
C9_Frame ==
    [][/\ DOMAIN cache \subseteq DOMAIN cache'
       /\ \A k \in DOMAIN cache' :
             (k \notin DOMAIN cache \/ cache'[k] # cache[k])
             => \E r \in Req :
                   /\ k = KeyPrefix \o city[r]
                   /\ Succeeds(r)
                   /\ cacheOps[r].set = 0
                   /\ cacheOps'[r].set = 1
       /\ \A r \in Req :
             /\ cacheOps'[r].set <= 1
             /\ cacheOps'[r].set # cacheOps[r].set
                => \A k \in DOMAIN cache :
                      k # KeyPrefix \o city[r] => cache'[k] = cache[k]]_vars

C9_Witness ==
    \E r1, r2 \in Req :
        /\ city[r1] = <<SPACE>>
        /\ city[r2] # city[r1]
        /\ got[r1].api # 0
        /\ got[r2].api # 0
        /\ cache[KeyPrefix \o city[r1]].data = got[r1].data
        /\ cache[KeyPrefix \o city[r2]].data = got[r2].data

\* C10: every lookup that has started a provider call eventually returns
\* its response.
C10_Terminates ==
    \A r \in Req : (pc[r] \in {"fetch", "body"}) ~> (pc[r] = "done")

====
